---- MODULE Spec2Model ----
(***************************************************************************)
(* MediSchedule AI: the shift roster kept by App.tsx (React state, refs,   *)
(* effects and async handlers), the data service and the schedule          *)
(* endpoints of server.js.                                                 *)
(*                                                                         *)
(* React state is a variable; a ref is a variable; an effect is an         *)
(* operator applied inside the action whose state change triggers it (an   *)
(* event handler, its render and the passive effects of that render run    *)
(* to completion before the next event or timer callback starts).  Every   *)
(* await is a point where other events interleave: a request in flight is  *)
(* a record that later actions advance.                                    *)
(***************************************************************************)
EXTENDS Integers, Sequences, FiniteSets, TLC

(***************************************************************************)
(* Bounds of the model                                                     *)
(***************************************************************************)
MaxOps == 3          \* operations the user performs after logging in, in one behaviour
MaxDay == 2          \* rosters are followed for the days 1..MaxDay of each month

(***************************************************************************)
(* Values                                                                  *)
(***************************************************************************)
Null == "null"                       \* JS null in a slot
NoDoctor == ""                       \* the "-" option of DoctorSelect
DoctorIds == {"d1", "d2"}
Shifts == {"morning", "afternoon", "night"}
Wards == {"icu", "general"}
Roles == {"admin", "user", "viewer"}
NoUser == "none"

Pair(i, g) == [icu |-> i, general |-> g]
EmptyPair == Pair(Null, Null)
\* shifts.morning is optional: <<>> is undefined, <<p>> is the pair p
NoMorning == <<>>

Edit(date, shift, type, doctorId) ==
    [date |-> date, shift |-> shift, type |-> type, doctorId |-> doctorId]
NoEdit == Edit([y |-> 0, mo |-> 0, d |-> 0, long |-> FALSE], "none", "none", Null)

(***************************************************************************)
(* Calendar: new Date(y, m, d), getDaysInMonth, getDay, format yyyy-MM-dd  *)
(***************************************************************************)
IsLeap(y) == (y % 4 = 0 /\ y % 100 # 0) \/ y % 400 = 0

getDaysInMonth(y, m) ==
    IF m = 1 THEN (IF IsLeap(y) THEN 29 ELSE 28)
    ELSE IF m \in {3, 5, 8, 10} THEN 30 ELSE 31

\* Date.prototype.getDay of the local date y, m (0-based), d: 0 is Sunday
MonthOffset == <<0, 3, 2, 5, 0, 3, 5, 1, 4, 6, 2, 4>>
getDay(y, m, d) ==
    LET yy == IF m < 2 THEN y - 1 ELSE y
    IN (yy + (yy \div 4) - (yy \div 100) + (yy \div 400) + MonthOffset[m + 1] + d) % 7

\* A date string.  long = FALSE is "yyyy-MM-dd"; long = TRUE is the same day
\* with a time part, "yyyy-MM-ddT00:00:00.000Z", as the server returns a DATE.
DateStr(y, m, d) == [y |-> y, mo |-> m + 1, d |-> d, long |-> FALSE]
\* s.date.split('T')[0]
SplitT(date) == [date EXCEPT !.long = FALSE]
\* new Date(day.date).toISOString().split('T')[0] on the server
ServerDateKey(date) == [date EXCEPT !.long = FALSE]
\* a DATE column read back through pg and JSON
ServerDateOut(key) == [key EXCEPT !.long = TRUE]

\* the day numbers of a month that the model follows
daysFollowed(y, m) == IF getDaysInMonth(y, m) < MaxDay THEN getDaysInMonth(y, m) ELSE MaxDay

DateLess(a, b) ==
    \/ a.y < b.y
    \/ a.y = b.y /\ a.mo < b.mo
    \/ a.y = b.y /\ a.mo = b.mo /\ a.d < b.d

(***************************************************************************)
(* The months and inputs the model explores                                *)
(***************************************************************************)
\* (year, month) pairs the navigation is followed through
Window == {<<2024, 11>>, <<2025, 0>>, <<2025, 11>>}
SelectMonths == {0, 11}            \* options of the month <select> that are tried
SelectYears == {2024, 2025}        \* options of the year <select> that are tried
HolidayDates == {DateStr(2024, 11, 2)}   \* days the admin declares a holiday
HolidayName == "holiday"
EditDayNumbers == {1}              \* rows of the table whose cells are edited
EditShifts == {"afternoon", "night"}   \* columns of the table whose cells are edited
EditWards == {"general"}
EditDoctorIds == {NoDoctor, "d1"}  \* options of DoctorSelect that are picked
ToggleDoctorIds == {"d1"}          \* rows of the doctor table that are clicked
LeaveDayNumbers == {1}             \* days of the leave calendar that are clicked

Config(y, m, hs) == [year |-> y, month |-> m, customHolidays |-> hs]
InitialConfig == Config(2024, 11, {})        \* new Date() at mount
StoredConfigs == {Config(2024, 11, {}), Config(2025, 0, {})}
NoConfig == Config(0, 0, {})                  \* getConfig() answered null

Doctor(id, active, un) == [id |-> id, active |-> active, unavailableDates |-> un]
StoredDoctors == << Doctor("d1", TRUE, {}), Doctor("d2", TRUE, {DateStr(2025, 0, 2)}) >>

(***************************************************************************)
(* Roster data                                                             *)
(***************************************************************************)
DayShifts(m, a, n) == [morning |-> m, afternoon |-> a, night |-> n]
Day(date, hol, name, sh) ==
    [date |-> date, isHoliday |-> hol, holidayName |-> name, shifts |-> sh]

\* App.tsx 159-163 and 170-174: the empty shifts of a synthesized day
FreshShifts(isHoliday) ==
    DayShifts(IF isHoliday THEN <<EmptyPair>> ELSE NoMorning, EmptyPair, EmptyPair)

HasMorning(day) == day.shifts.morning # NoMorning

\* the occupant of a slot, Null when the day has no Morning pair
Slot(day, shift, type) ==
    IF shift = "morning"
    THEN (IF HasMorning(day) THEN day.shifts.morning[1][type] ELSE Null)
    ELSE day.shifts[shift][type]

OtherWard(type) == IF type = "icu" THEN "general" ELSE "icu"

(***************************************************************************)
(* updateSchedule, the edit cascade (App.tsx 197-223)                      *)
(***************************************************************************)
\* a variant whose night write is copied into the afternoon slot of the ward
updateDayNightCascades(day, shift, type, doctorId) ==
    LET s == day.shifts
        newShifts ==
            IF shift = "morning" /\ s.morning # NoMorning
            THEN [s EXCEPT !.morning = <<[s.morning[1] EXCEPT ![type] = doctorId]>>,
                           !.afternoon = [@ EXCEPT ![OtherWard(type)] = doctorId],
                           !.night = [@ EXCEPT ![OtherWard(type)] = doctorId]]
            ELSE [s EXCEPT !.afternoon = [@ EXCEPT ![type] = doctorId],
                           !.night = [@ EXCEPT ![type] = doctorId]]
    IN [day EXCEPT !.shifts = newShifts]

\* a variant whose afternoon write cascades into the other ward's night slot
updateDayCrossesWards(day, shift, type, doctorId) ==
    LET s == day.shifts
        newShifts ==
            IF shift = "morning" /\ s.morning # NoMorning
            THEN [s EXCEPT !.morning = <<[s.morning[1] EXCEPT ![type] = doctorId]>>,
                           !.afternoon = [@ EXCEPT ![OtherWard(type)] = doctorId],
                           !.night = [@ EXCEPT ![OtherWard(type)] = doctorId]]
            ELSE IF shift = "afternoon"
            THEN [s EXCEPT !.afternoon = [@ EXCEPT ![type] = doctorId],
                           !.night = [@ EXCEPT ![OtherWard(type)] = doctorId]]
            ELSE [s EXCEPT !.night = [@ EXCEPT ![type] = doctorId]]
    IN [day EXCEPT !.shifts = newShifts]

updateDay(day, shift, type, doctorId) ==
    LET s == day.shifts
        newShifts ==
            IF shift = "morning" /\ s.morning # NoMorning
            THEN [s EXCEPT !.morning = <<[s.morning[1] EXCEPT ![type] = doctorId]>>,
                           !.afternoon = [@ EXCEPT ![OtherWard(type)] = doctorId],
                           !.night = [@ EXCEPT ![OtherWard(type)] = doctorId]]
            ELSE IF shift = "afternoon"
            THEN [s EXCEPT !.afternoon = [@ EXCEPT ![type] = doctorId],
                           !.night = [@ EXCEPT ![type] = doctorId]]
            ELSE [s EXCEPT !.night = [@ EXCEPT ![type] = doctorId]]
    IN [day EXCEPT !.shifts = newShifts]

\* a variant that applies the edit to every day, whatever its date
applyEditEveryDay(roster, date, shift, type, doctorId) ==
    [i \in DOMAIN roster |-> updateDay(roster[i], shift, type, doctorId)]

applyEdit(roster, date, shift, type, doctorId) ==
    [i \in DOMAIN roster |->
        IF roster[i].date = date
        THEN updateDay(roster[i], shift, type, doctorId)
        ELSE roster[i]]

(***************************************************************************)
(* State                                                                   *)
(***************************************************************************)
VARIABLES
    user,              \* App.tsx 18: role of the logged-in user, NoUser when null
    isDataLoaded,      \* App.tsx 35
    doctors,           \* App.tsx 20
    config,            \* App.tsx 21
    schedule,          \* App.tsx 26: the in-memory roster
    isGenerating,      \* App.tsx 27
    generation,        \* the generateScheduleWithGemini call in flight (<<>> or <<closure>>)
    isSaving,          \* App.tsx 31
    saveStatus,        \* App.tsx 32
    scheduleDirtyRef,  \* App.tsx 38
    saveTimeoutRef,    \* App.tsx 40: id of the last timer set, 0 when null
    timers,            \* pending setTimeout callbacks: [id, sched (the closure's schedule)]
    flights,           \* saveScheduleToDb calls in flight, in the order issued
    fetches,           \* getSchedule calls of syncScheduleWithDb in flight
    db,                \* daily_schedules on the server: rows in date order
    localSchedule,     \* localStorage 'schedule': <<>> or <<roster>>
    flushLog,          \* history: origin of every saveScheduleToDb call issued so far
    numEdits,          \* history: updateSchedule calls applied so far
    lastEdit,          \* history: arguments of the last updateSchedule call
    numGen,            \* history: generations merged into the roster so far
    alerts,            \* history: the alert() boxes shown so far, in order
    lastGenerated,     \* history: <<>> or the call and the answer of the last generation merged
    doctorsDb,         \* the doctors table on the server
    localDoctors,      \* localStorage 'doctors': <<>> or <<list>>
    doctorPosts,       \* saveDoctors calls in flight: the lists posted, in the order issued
    numOps             \* history: operations the user has performed so far

vars == << user, isDataLoaded, doctors, config, schedule, isGenerating, generation,
           isSaving, saveStatus, scheduleDirtyRef, saveTimeoutRef, timers, flushLog,
           flights, fetches, db, localSchedule, numEdits, lastEdit, numGen, alerts,
           lastGenerated, doctorsDb, localDoctors, doctorPosts, numOps >>

\* what the save effect of the doctors writes to
doctorStore == << doctorsDb, localDoctors, doctorPosts >>


Init ==
    /\ user = NoUser
    /\ isDataLoaded = FALSE
    /\ doctors = <<>>
    /\ config = InitialConfig
    /\ schedule = <<>>
    /\ isGenerating = FALSE
    /\ generation = <<>>
    /\ isSaving = FALSE
    /\ saveStatus = "saved"
    /\ scheduleDirtyRef = FALSE
    /\ saveTimeoutRef = 0
    /\ timers = {}
    /\ flushLog = <<>>
    /\ flights = <<>>
    /\ fetches = {}
    /\ db = <<>>
    /\ localSchedule = <<>>
    /\ numEdits = 0
    /\ numOps = 0
    /\ lastEdit = NoEdit
    /\ numGen = 0
    /\ alerts = <<>>
    /\ lastGenerated = <<>>
    /\ doctorsDb = StoredDoctors
    /\ localDoctors = <<>>
    /\ doctorPosts = <<>>

(***************************************************************************)
(* Effects                                                                 *)
(***************************************************************************)
\* clearTimeout(id): a fired or cleared id is a no-op
clearTimeout(ts, id) == {t \in ts : t.id # id}

\* a variant that sets the new timer without clearing the previous one
AutoSaveEffectKeepsTimer(sched, loaded, dirty, status) ==
    IF loaded /\ Len(sched) > 0 /\ dirty
    THEN [timers |-> timers \cup {[id |-> saveTimeoutRef + 1, sched |-> sched]},
          ref |-> saveTimeoutRef + 1,
          status |-> "unsaved"]
    ELSE [timers |-> timers, ref |-> saveTimeoutRef, status |-> status]

\* App.tsx 101-125, the auto-save effect, run after a render in which the
\* schedule changed to sched: cleanup of the previous run (120-124), then
\* the body (102-117).  status is the saveStatus the handler left.
AutoSaveEffect(sched, loaded, dirty, status) ==
    LET cleaned == clearTimeout(timers, saveTimeoutRef)
    IN IF loaded /\ Len(sched) > 0 /\ dirty
       THEN [timers |-> clearTimeout(cleaned, saveTimeoutRef)
                          \cup {[id |-> saveTimeoutRef + 1, sched |-> sched]},
             ref |-> saveTimeoutRef + 1,
             status |-> "unsaved"]
       ELSE [timers |-> cleaned, ref |-> saveTimeoutRef, status |-> status]

\* App.tsx 128-192, the sync effect, run when year, month, customHolidays or
\* isDataLoaded changed: cleanup (190) deactivates the previous run, the body
\* starts a fetch for cfg (133-136).
\* edits is a history field: the edits applied when getSchedule was called
Fetch(cfg) ==
    [cfg |-> cfg, active |-> TRUE, got |-> FALSE, data |-> <<>>, edits |-> numEdits]
\* a variant without the cleanup: the earlier runs stay active
SyncEffectWithoutCleanup(fs, cfg, loaded) ==
    IF loaded THEN fs \cup {Fetch(cfg)} ELSE fs

SyncEffect(fs, cfg, loaded) ==
    LET stale == {[f EXCEPT !.active = FALSE] : f \in fs}
    IN IF loaded THEN stale \cup {Fetch(cfg)} ELSE stale

\* setConfig(cfg): the state change and the sync effect it triggers
SetConfig(cfg) ==
    /\ config' = cfg
    /\ fetches' = IF cfg # config THEN SyncEffect(fetches, cfg, isDataLoaded) ELSE fetches

(***************************************************************************)
(* Session                                                                 *)
(***************************************************************************)
UIVisible == user # NoUser /\ isDataLoaded      \* App.tsx 322-333
CanOperate == UIVisible /\ numOps < MaxOps
isAdmin == user = "admin"                       \* App.tsx 328
isViewer == user = "viewer"                     \* App.tsx 329

\* App.tsx 313-316
handleLogin(role) ==
    /\ user = NoUser
    /\ user' = role
    /\ UNCHANGED << isDataLoaded, doctors, config, schedule, isGenerating, generation,
                    isSaving, saveStatus, scheduleDirtyRef, saveTimeoutRef, timers,
                    flushLog, flights, fetches, db, localSchedule, numEdits, lastEdit, numGen,
                    lastGenerated, doctorStore, numOps,
                    alerts >>

\* dataService.ts 61-70: the stored list, or after any failure (request
\* rejected or error response) the list in localStorage, or []
getDoctors(reached) ==
    IF reached THEN doctorsDb
    ELSE IF localDoctors = <<>> THEN <<>> ELSE localDoctors[1]

\* App.tsx 64-68 and dataService.ts 72-78: the doctors save effect, run when
\* doctors or isDataLoaded changed, posts the list once the data is loaded
DoctorsSaveEffect(posts, oldDoctors, newDoctors, wasLoaded, loaded) ==
    IF loaded /\ (newDoctors # oldDoctors \/ ~wasLoaded)
    THEN Append(posts, newDoctors) ELSE posts

\* App.tsx 43-61: loadedDoctors is the answer of getDoctors, loadedConfig a
\* stored config or null; then isDataLoaded turns true and the save effect of
\* the doctors and the sync effect run
loadData(loadedDoctors, loadedConfig) ==
    /\ ~isDataLoaded
    /\ doctors' = IF Len(loadedDoctors) > 0 THEN loadedDoctors ELSE doctors
    /\ config' = IF loadedConfig # NoConfig THEN loadedConfig ELSE config
    /\ isDataLoaded' = TRUE
    /\ fetches' = SyncEffect(fetches, config', TRUE)
    /\ doctorPosts' = DoctorsSaveEffect(doctorPosts, doctors, doctors', FALSE, TRUE)
    /\ UNCHANGED << doctorsDb, localDoctors >>
    /\ UNCHANGED << user, schedule, isGenerating, generation, isSaving, saveStatus,
                    scheduleDirtyRef, saveTimeoutRef, timers, flushLog, flights, db,
                    localSchedule, numEdits, lastEdit, numGen, lastGenerated, numOps,
                    alerts >>

(***************************************************************************)
(* The durable store: POST and GET /api/schedules (server.js 317-364)      *)
(***************************************************************************)
\* server.js 341-353: one INSERT ... ON CONFLICT (date) DO UPDATE per day.
\* JSON drops an undefined holidayName, which the column stores as NULL.
Row(day) ==
    [key |-> ServerDateKey(day.date),
     isHoliday |-> day.isHoliday,
     holidayName |-> IF day.holidayName = "undefined" THEN Null ELSE day.holidayName,
     shifts |-> day.shifts]

\* the table is kept in the order of its primary key, the one GET answers in
UpsertRow(rows, row) ==
    LET Before(r) == DateLess(r.key, row.key)
        After(r) == DateLess(row.key, r.key)
    IN SelectSeq(rows, Before) \o <<row>> \o SelectSeq(rows, After)

RECURSIVE UpsertFrom(_, _, _)
UpsertFrom(rows, sched, i) ==
    IF i > Len(sched) THEN rows
    ELSE UpsertFrom(UpsertRow(rows, Row(sched[i])), sched, i + 1)

\* a variant that empties the table before it inserts the payload
UpsertIntoEmptied(rows, sched) == UpsertFrom(<<>>, sched, 1)

Upsert(rows, sched) == UpsertFrom(rows, sched, 1)

\* server.js 319-325: SELECT * ... ORDER BY date ASC, mapped to the JSON days
SortedRows(rows) ==
    [i \in DOMAIN rows |->
        Day(ServerDateOut(rows[i].key), rows[i].isHoliday, rows[i].holidayName,
            rows[i].shifts)]

(***************************************************************************)
(* syncScheduleWithDb (App.tsx 133-186)                                    *)
(***************************************************************************)
isWeekendDay(y, m, d) == getDay(y, m, d) = 0 \/ getDay(y, m, d) = 6

\* App.tsx 148-149
isHolidayDate(cfg, d) ==
    isWeekendDay(cfg.year, cfg.month, d) \/ DateStr(cfg.year, cfg.month, d) \in cfg.customHolidays

\* customHoliday?.name
holidayNameOf(cfg, d) ==
    IF DateStr(cfg.year, cfg.month, d) \in cfg.customHolidays THEN HolidayName ELSE "undefined"

\* App.tsx 152: dbSchedule.find(s => s.date.split('T')[0] === dateStr), 0 when none
RECURSIVE FindFrom(_, _, _)
FindFrom(data, dateStr, i) ==
    IF i > Len(data) THEN 0
    ELSE IF SplitT(data[i].date) = dateStr THEN i
    ELSE FindFrom(data, dateStr, i + 1)

\* a variant that keeps the holiday flag and name of a stored record
SyncDayKeepsFlag(cfg, data, d) ==
    LET dateStr == DateStr(cfg.year, cfg.month, d)
        found == FindFrom(data, dateStr, 1)
    IN IF found # 0
       THEN data[found]
       ELSE Day(dateStr, isHolidayDate(cfg, d), holidayNameOf(cfg, d),
                FreshShifts(isHolidayDate(cfg, d)))

\* App.tsx 144-176: the day pushed for day number d
SyncDay(cfg, data, d) ==
    LET dateStr == DateStr(cfg.year, cfg.month, d)
        found == FindFrom(data, dateStr, 1)
    IN IF found # 0
       THEN [data[found] EXCEPT !.isHoliday = isHolidayDate(cfg, d),
                                !.holidayName = holidayNameOf(cfg, d)]
       ELSE Day(dateStr, isHolidayDate(cfg, d), holidayNameOf(cfg, d),
                FreshShifts(isHolidayDate(cfg, d)))

\* a variant whose loop stops one day early
monthScheduleStopsEarly(cfg, data, days) == [d \in 1..(days - 1) |-> SyncDay(cfg, data, d)]

\* App.tsx 141-177: the loop for (let day = 1; day <= days; day++)
monthSchedule(cfg, data, days) == [d \in 1..days |-> SyncDay(cfg, data, d)]

\* App.tsx 140-177, for the days the model follows
newMonthSchedule(cfg, data) == monthSchedule(cfg, data, daysFollowed(cfg.year, cfg.month))

(***************************************************************************)
(* Editing (App.tsx 194-227, ScheduleTable)                                *)
(***************************************************************************)
\* ScheduleTable DoctorSelect 52, 62-65: "-" and the active doctors that are
\* not unavailable on the row's date string
selectOptions(date) ==
    {NoDoctor} \cup
    {doctors[i].id : i \in {j \in DOMAIN doctors :
        doctors[j].active /\ date \notin doctors[j].unavailableDates}}

\* ScheduleTable 138-189: the cell is rendered (Morning only when the day has
\* a Morning pair) and the option picked differs from the one shown
cellOffers(day, shift, type, doctorId) ==
    /\ shift = "morning" => HasMorning(day)
    /\ doctorId \in selectOptions(day.date)
    /\ doctorId # (IF Slot(day, shift, type) = Null THEN NoDoctor ELSE Slot(day, shift, type))

\* a variant without the role check of App.tsx 195
updateScheduleForAnyRole(date, shift, type, doctorId) ==
    /\ CanOperate
    /\ LET newSched == applyEdit(schedule, date, shift, type, doctorId)
           eff == AutoSaveEffect(newSched, isDataLoaded, TRUE, "unsaved")
       IN /\ schedule' = newSched
          /\ scheduleDirtyRef' = TRUE
          /\ saveStatus' = eff.status
          /\ timers' = eff.timers
          /\ saveTimeoutRef' = eff.ref
          /\ numEdits' = numEdits + 1
          /\ numOps' = numOps + 1
          /\ lastEdit' = Edit(date, shift, type, doctorId)
          /\ UNCHANGED << user, isDataLoaded, doctors, config, isGenerating,
                          generation, isSaving, flushLog, flights, fetches, db,
                          localSchedule, numGen, lastGenerated, doctorStore, alerts >>

\* a variant that applies the edit without marking the roster dirty
updateScheduleLeavesClean(date, shift, type, doctorId) ==
    /\ CanOperate
    /\ IF user # "admin"
       THEN /\ numOps' = numOps + 1
            /\ lastEdit' = Edit(date, shift, type, doctorId)
            /\ UNCHANGED << user, isDataLoaded, doctors, config, schedule, isGenerating,
                            generation, isSaving, saveStatus, scheduleDirtyRef,
                            saveTimeoutRef, timers, flushLog, flights, fetches, db,
                            localSchedule, numEdits, numGen, lastGenerated, doctorStore, alerts >>
       ELSE LET newSched == applyEdit(schedule, date, shift, type, doctorId)
                eff == AutoSaveEffect(newSched, isDataLoaded, scheduleDirtyRef, saveStatus)
            IN /\ schedule' = newSched
               /\ scheduleDirtyRef' = scheduleDirtyRef
               /\ saveStatus' = eff.status
               /\ timers' = eff.timers
               /\ saveTimeoutRef' = eff.ref
               /\ numEdits' = numEdits + 1
               /\ numOps' = numOps + 1
               /\ lastEdit' = Edit(date, shift, type, doctorId)
               /\ UNCHANGED << user, isDataLoaded, doctors, config, isGenerating,
                               generation, isSaving, flushLog, flights, fetches, db,
                               localSchedule, numGen, lastGenerated, doctorStore, alerts >>

\* App.tsx 194-227 followed by the auto-save effect of the render it causes
updateSchedule(date, shift, type, doctorId) ==
    /\ CanOperate
    /\ IF user # "admin"
       THEN /\ numOps' = numOps + 1
            /\ lastEdit' = Edit(date, shift, type, doctorId)
            /\ UNCHANGED << user, isDataLoaded, doctors, config, schedule, isGenerating,
                            generation, isSaving, saveStatus, scheduleDirtyRef,
                            saveTimeoutRef, timers, flushLog, flights, fetches, db,
                            localSchedule, numEdits, numGen, lastGenerated, doctorStore, alerts >>
       ELSE LET newSched == applyEdit(schedule, date, shift, type, doctorId)
                eff == AutoSaveEffect(newSched, isDataLoaded, TRUE, "unsaved")
            IN /\ schedule' = newSched
               /\ scheduleDirtyRef' = TRUE
               /\ saveStatus' = eff.status
               /\ timers' = eff.timers
               /\ saveTimeoutRef' = eff.ref
               /\ numEdits' = numEdits + 1
               /\ numOps' = numOps + 1
               /\ lastEdit' = Edit(date, shift, type, doctorId)
               /\ UNCHANGED << user, isDataLoaded, doctors, config, isGenerating,
                               generation, isSaving, flushLog, flights, fetches, db,
                               localSchedule, numGen, lastGenerated, doctorStore, alerts >>

\* a change event of one rendered DoctorSelect
EditCell ==
    \E i \in EditDayNumbers \cap DOMAIN schedule, shift \in EditShifts, type \in EditWards,
       doctorId \in EditDoctorIds :
        /\ cellOffers(schedule[i], shift, type, doctorId)
        /\ updateSchedule(schedule[i].date, shift, type, doctorId)

(***************************************************************************)
(* Generation (App.tsx 229-256, geminiService.ts 256-333)                  *)
(***************************************************************************)
activeIds(docs) == {docs[i].id : i \in {j \in DOMAIN docs : docs[j].active}}

\* one day of a roster following rules 4 and 5 of the prompt with doctors a, b
patternDay(cfg, d, a, b) ==
    Day(DateStr(cfg.year, cfg.month, d), isHolidayDate(cfg, d),
        IF holidayNameOf(cfg, d) = "undefined" THEN Null ELSE holidayNameOf(cfg, d),
        IF isHolidayDate(cfg, d)
        THEN DayShifts(<<Pair(b, a)>>, Pair(a, b), Pair(a, b))
        ELSE DayShifts(NoMorning, Pair(b, a), Pair(b, a)))

\* rule 1 of the prompt: the active doctors with no date of the month in 'un'
eligibleIds(docs, cfg) ==
    {docs[i].id : i \in {j \in DOMAIN docs :
        /\ docs[j].active
        /\ \A d \in 1..daysFollowed(cfg.year, cfg.month) :
               DateStr(cfg.year, cfg.month, d) \notin docs[j].unavailableDates}}

\* the answers of the language model that are followed: the rosters obeying
\* rules 1-5 of the prompt with one pair of doctors for the whole month
generatedRosters(docs, cfg) ==
    {[d \in 1..daysFollowed(cfg.year, cfg.month) |-> patternDay(cfg, d, p[1], p[2])] :
        p \in {q \in eligibleIds(docs, cfg) \X eligibleIds(docs, cfg) : q[1] # q[2]}}

\* App.tsx 241: generated.find(g => g.date === day.date), 0 when none
RECURSIVE FindDate(_, _, _)
FindDate(generated, date, i) ==
    IF i > Len(generated) THEN 0
    ELSE IF generated[i].date = date THEN i
    ELSE FindDate(generated, date, i + 1)

\* App.tsx 240-247
mergeGenerated(prev, generated) ==
    [i \in DOMAIN prev |->
        LET g == FindDate(generated, prev[i].date, 1)
        IN IF g = 0 THEN prev[i] ELSE [prev[i] EXCEPT !.shifts = generated[g].shifts]]

\* the texts of the alert() boxes: App.tsx 233, 252, 295
InsufficientStaff == "staff"
GenerationError == "generation"
SaveFailed == "saving"

\* App.tsx 237-239: the generator is called with the doctors and config of this render
startGenerator ==
    /\ isGenerating' = TRUE
    /\ generation' = <<[doctors |-> doctors, config |-> config]>>
    /\ UNCHANGED alerts

\* a variant that calls the generator however few doctors are active
handleGenerateUnguarded ==
    /\ CanOperate
    /\ isAdmin
    /\ ~isGenerating /\ ~isSaving
    /\ startGenerator
    /\ numOps' = numOps + 1
    /\ UNCHANGED << user, isDataLoaded, doctors, config, schedule, isSaving, saveStatus,
                    scheduleDirtyRef, saveTimeoutRef, timers, flushLog, flights, fetches,
                    db, localSchedule, numEdits, lastEdit, numGen, lastGenerated, doctorStore >>

\* App.tsx 229-239: up to the await; the button is disabled while generating or saving (449)
handleGenerate ==
    /\ CanOperate
    /\ isAdmin => ~isGenerating /\ ~isSaving
    /\ IF ~isAdmin
       THEN UNCHANGED << isGenerating, generation, alerts >>
       ELSE IF Cardinality(activeIds(doctors)) < 2
       THEN /\ alerts' = Append(alerts, InsufficientStaff)
            /\ UNCHANGED << isGenerating, generation >>
       ELSE startGenerator
    /\ numOps' = numOps + 1
    /\ UNCHANGED << user, isDataLoaded, doctors, config, schedule, isSaving, saveStatus,
                    scheduleDirtyRef, saveTimeoutRef, timers, flushLog, flights, fetches,
                    db, localSchedule, numEdits, lastEdit, numGen, lastGenerated, doctorStore >>

\* App.tsx 240-249, 254: the generator answered
generateDone ==
    /\ generation # <<>>
    /\ \E generated \in generatedRosters(generation[1].doctors, generation[1].config) :
        LET newSched == mergeGenerated(schedule, generated)
            eff == AutoSaveEffect(newSched, isDataLoaded, TRUE, "unsaved")
        IN /\ schedule' = newSched
           /\ scheduleDirtyRef' = TRUE
           /\ saveStatus' = eff.status
           /\ timers' = eff.timers
           /\ saveTimeoutRef' = eff.ref
           /\ lastGenerated' = <<[call |-> generation[1], answer |-> generated]>>
    /\ isGenerating' = FALSE
    /\ generation' = <<>>
    /\ numGen' = numGen + 1
    /\ UNCHANGED << user, isDataLoaded, doctors, config, isSaving, flushLog, flights,
                    fetches, db, localSchedule, numEdits, lastEdit, numOps, alerts,
                    doctorStore >>

\* a variant in which the roster is marked unsaved before the generator is awaited
generateFailMarksDirty ==
    /\ generation # <<>>
    /\ isGenerating' = FALSE
    /\ generation' = <<>>
    /\ alerts' = Append(alerts, GenerationError)
    /\ scheduleDirtyRef' = TRUE
    /\ saveStatus' = "unsaved"
    /\ UNCHANGED << user, isDataLoaded, doctors, config, schedule, isSaving,
                    saveTimeoutRef, timers, flushLog, flights, fetches,
                    db, localSchedule, numEdits, lastEdit, numGen, lastGenerated, doctorStore,
                    numOps >>

\* App.tsx 250-254: the generator threw
generateFail ==
    /\ generation # <<>>
    /\ isGenerating' = FALSE
    /\ generation' = <<>>
    /\ alerts' = Append(alerts, GenerationError)
    /\ UNCHANGED << user, isDataLoaded, doctors, config, schedule, isSaving, saveStatus,
                    scheduleDirtyRef, saveTimeoutRef, timers, flushLog, flights, fetches,
                    db, localSchedule, numEdits, lastEdit, numGen, lastGenerated, doctorStore,
                    numOps >>

(***************************************************************************)
(* Flushing the roster (App.tsx 80-125, 282-311; dataService.ts 97-108)    *)
(***************************************************************************)
\* a saveScheduleToDb call in flight: the roster it was given, the caller
\* (its continuation) and the caller's closure; committed is whether the
\* server has run the POST
Flush(origin, sched, cfg, dir) ==
    [origin |-> origin, sched |-> sched, config |-> cfg, direction |-> dir,
     committed |-> FALSE]

RemoveAt(seq, i) == [j \in 1..(Len(seq) - 1) |-> IF j < i THEN seq[j] ELSE seq[j + 1]]

\* App.tsx 80-84: saveScheduleToDb up to the await of dataService.saveSchedule
saveScheduleToDb(call) ==
    /\ isSaving' = TRUE
    /\ saveStatus' = "saving"
    /\ flights' = Append(flights, call)
    /\ flushLog' = Append(flushLog, [origin |-> call.origin, edits |-> numEdits])

\* App.tsx 111-116: the debounce timer fires
timerFires ==
    \E t \in timers :
        /\ timers' = timers \ {t}
        /\ saveScheduleToDb(Flush("timer", t.sched, config, "none"))
        /\ UNCHANGED << user, isDataLoaded, doctors, config, schedule, isGenerating,
                        generation, scheduleDirtyRef, saveTimeoutRef, fetches, db,
                        localSchedule, numEdits, lastEdit, numGen, lastGenerated, doctorStore,
                        numOps, alerts >>

\* App.tsx 300-310
navigate(cfg, dir) ==
    LET newMonth == cfg.month + (IF dir = "next" THEN 1 ELSE -1)
    IN IF newMonth > 11 THEN [cfg EXCEPT !.month = 0, !.year = cfg.year + 1]
       ELSE IF newMonth < 0 THEN [cfg EXCEPT !.month = 11, !.year = cfg.year - 1]
       ELSE [cfg EXCEPT !.month = newMonth]

InWindow(cfg) == <<cfg.year, cfg.month>> \in Window

\* a variant that flushes without cancelling the pending timer
forcedFlushKeepsTimer(dir) ==
    /\ timers' = timers
    /\ saveScheduleToDb(Flush("cycle", schedule, config, dir))
    /\ UNCHANGED << config, fetches >>

\* App.tsx 286-291: the roster is dirty, cancel the timer and flush
forcedFlush(dir) ==
    /\ timers' = clearTimeout(timers, saveTimeoutRef)
    /\ saveScheduleToDb(Flush("cycle", schedule, config, dir))
    /\ UNCHANGED << config, fetches >>

\* App.tsx 282-311 up to its first await (or to its end when the roster is clean)
cycleMonth(dir) ==
    /\ CanOperate
    /\ InWindow(navigate(config, dir))
    /\ ~isSaving
    /\ IF scheduleDirtyRef
       THEN forcedFlush(dir)
       ELSE /\ SetConfig(navigate(config, dir))
            /\ UNCHANGED << timers, isSaving, saveStatus, flushLog, flights >>
    /\ numOps' = numOps + 1
    /\ UNCHANGED << user, isDataLoaded, doctors, schedule, isGenerating, generation,
                    scheduleDirtyRef, saveTimeoutRef, db, localSchedule, numEdits,
                    lastEdit, numGen, lastGenerated, doctorStore, alerts >>

\* server.js 333-356: the POST reaches the server and commits
postSchedules(i) ==
    /\ ~flights[i].committed
    /\ db' = Upsert(db, flights[i].sched)
    /\ flights' = [flights EXCEPT ![i].committed = TRUE]
    /\ UNCHANGED << user, isDataLoaded, doctors, config, schedule, isGenerating,
                    generation, isSaving, saveStatus, scheduleDirtyRef, saveTimeoutRef,
                    timers, flushLog, fetches, localSchedule, numEdits, lastEdit, numGen,
                    lastGenerated, doctorStore, numOps, alerts >>

\* What the client gets back for a POST in flight:
\*   "ok"       the server committed and answered 200
\*   "error"    the server answered 400 or rolled back and answered 500 (server.js 335, 357-360)
\*   "offline"  fetch rejected, localStorage took the roster (dataService.ts 104-106)
\*   "throws"   fetch rejected and localStorage.setItem threw
Outcomes(call) == IF call.committed THEN {"ok"} ELSE {"error", "offline", "throws"}

\* dataService.ts 97-108: saveSchedule resolves whatever the HTTP status is;
\* it rejects only when the localStorage fallback throws
saveScheduleResolves(outcome) == outcome # "throws"

\* App.tsx 113-115 and 292-293: the caller marks the roster clean on success
dirtyAfterFlush(success, dirty) == IF success THEN FALSE ELSE dirty

\* App.tsx 85-97 and the caller's continuation: 113-115 (timer) or 292-310 (cycleMonth)
saveScheduleReturns(i, outcome) ==
    LET call == flights[i]
        success == saveScheduleResolves(outcome)
    IN /\ outcome \in Outcomes(call)
       /\ flights' = RemoveAt(flights, i)
       /\ localSchedule' = IF outcome = "offline" THEN <<call.sched>> ELSE localSchedule
       /\ saveStatus' = IF success THEN "saved" ELSE "error"
       /\ isSaving' = FALSE
       /\ scheduleDirtyRef' = dirtyAfterFlush(success, scheduleDirtyRef)
       /\ IF success /\ call.origin = "cycle"
          THEN SetConfig(navigate(call.config, call.direction))
          ELSE UNCHANGED << config, fetches >>
       /\ alerts' = IF ~success /\ call.origin = "cycle"
                    THEN Append(alerts, SaveFailed) ELSE alerts
       /\ UNCHANGED << user, isDataLoaded, doctors, schedule, isGenerating, generation,
                       saveTimeoutRef, timers, flushLog, db, numEdits, lastEdit, numGen,
                       lastGenerated, doctorStore, numOps >>

(***************************************************************************)
(* ConfigPanel (ConfigPanel.tsx 27-77, 111-131; App.tsx 494-500)           *)
(***************************************************************************)
configChange(cfg) ==
    /\ CanOperate
    /\ ~isViewer
    /\ cfg # config
    /\ InWindow(cfg)
    /\ SetConfig(cfg)
    /\ numOps' = numOps + 1
    /\ UNCHANGED << user, isDataLoaded, doctors, schedule, isGenerating, generation,
                    isSaving, saveStatus, scheduleDirtyRef, saveTimeoutRef, timers,
                    flushLog, flights, db, localSchedule, numEdits, lastEdit, numGen,
                    lastGenerated, doctorStore, alerts >>

\* ConfigPanel.tsx 111-119
selectMonth(m) == configChange([config EXCEPT !.month = m])

\* ConfigPanel.tsx 123-131
selectYear(y) == configChange([config EXCEPT !.year = y])

\* ConfigPanel.tsx 27-42: a day of the shown month that is no weekend, admin only
dayClickable(date) ==
    /\ isAdmin
    /\ date.y = config.year /\ date.mo = config.month + 1
    /\ ~isWeekendDay(config.year, config.month, date.d)

\* ConfigPanel.tsx 44-59
saveHoliday(date) ==
    /\ dayClickable(date)
    /\ configChange([config EXCEPT !.customHolidays = @ \cup {date}])

\* ConfigPanel.tsx 61-67, 74-77
deleteHoliday(date) ==
    /\ dayClickable(date)
    /\ date \in config.customHolidays
    /\ configChange([config EXCEPT !.customHolidays = @ \ {date}])

(***************************************************************************)
(* DoctorManager (DoctorManager.tsx 61-82, 172-210, 278-288; App.tsx 485)  *)
(***************************************************************************)
\* setDoctors from the doctors view, which is shown to every role but viewer
setDoctors(newDoctors) ==
    /\ CanOperate
    /\ ~isViewer
    /\ doctors' = newDoctors
    /\ doctorPosts' = DoctorsSaveEffect(doctorPosts, doctors, newDoctors,
                                        isDataLoaded, isDataLoaded)
    /\ numOps' = numOps + 1
    /\ UNCHANGED << user, isDataLoaded, config, schedule, isGenerating, generation,
                    isSaving, saveStatus, scheduleDirtyRef, saveTimeoutRef, timers,
                    flushLog, flights, fetches, db, localSchedule, numEdits, lastEdit,
                    numGen, lastGenerated, doctorsDb, localDoctors, alerts >>

\* server.js 269-305: the rows whose id is not in the payload are deleted (all
\* rows when the payload is empty), then every doctor of the payload is
\* inserted, or updated where the id exists
PostDoctorsTable(rows, payload) ==
    LET Posted(r) == \E j \in DOMAIN payload : payload[j].id = r.id
        IsNew(d) == \A k \in DOMAIN rows : rows[k].id # d.id
        kept == SelectSeq(rows, Posted)
    IN [k \in DOMAIN kept |->
            payload[CHOOSE j \in DOMAIN payload : payload[j].id = kept[k].id]]
       \o SelectSeq(payload, IsNew)

\* What becomes of a saveDoctors call in flight (dataService.ts 72-83); the
\* client looks at no answer:
\*   "ok"       the server committed
\*   "error"    the server answered 400 or rolled back and answered 500
\*   "offline"  fetch rejected, localStorage took the list
saveDoctors(i, outcome) ==
    /\ i \in DOMAIN doctorPosts
    /\ doctorsDb' = IF outcome = "ok"
                    THEN PostDoctorsTable(doctorsDb, doctorPosts[i]) ELSE doctorsDb
    /\ localDoctors' = IF outcome = "offline" THEN <<doctorPosts[i]>> ELSE localDoctors
    /\ doctorPosts' = RemoveAt(doctorPosts, i)
    /\ UNCHANGED << user, isDataLoaded, doctors, config, schedule, isGenerating,
                    generation, isSaving, saveStatus, scheduleDirtyRef, saveTimeoutRef,
                    timers, flushLog, flights, fetches, db, localSchedule, numEdits,
                    lastEdit, numGen, lastGenerated, numOps, alerts >>

\* DoctorManager.tsx 61-65
toggleActiveStatus(id) ==
    setDoctors([i \in DOMAIN doctors |->
                   IF doctors[i].id = id
                   THEN [doctors[i] EXCEPT !.active = ~doctors[i].active]
                   ELSE doctors[i]])

\* DoctorManager.tsx 67-82: a day of the leave calendar of an active doctor,
\* which shows the month of config (203-205, 278-288)
toggleUnavailableDate(id, d) ==
    LET dateStr == DateStr(config.year, config.month, d)
    IN /\ \E i \in DOMAIN doctors : doctors[i].id = id /\ doctors[i].active
       /\ d <= getDaysInMonth(config.year, config.month)
       /\ setDoctors([i \in DOMAIN doctors |->
                         IF doctors[i].id = id
                         THEN [doctors[i] EXCEPT !.unavailableDates =
                                   IF dateStr \in @ THEN @ \ {dateStr} ELSE @ \cup {dateStr}]
                         ELSE doctors[i]])

(***************************************************************************)
(* The roster fetch of syncScheduleWithDb (App.tsx 133-186)                *)
(***************************************************************************)
\* server.js 317-326 through dataService.ts 86-89: the server answers
getScheduleRead(f) ==
    /\ f.active /\ ~f.got
    /\ fetches' = (fetches \ {f}) \cup {[f EXCEPT !.got = TRUE, !.data = SortedRows(db)]}
    /\ UNCHANGED << user, isDataLoaded, doctors, config, schedule, isGenerating,
                    generation, isSaving, saveStatus, scheduleDirtyRef, saveTimeoutRef,
                    timers, flushLog, flights, db, localSchedule, numEdits, lastEdit,
                    numGen, lastGenerated, doctorStore, numOps, alerts >>

\* App.tsx 138: the answer of a fetch whose effect was cleaned up is dropped
syncStale(f) ==
    /\ ~f.active
    /\ fetches' = fetches \ {f}
    /\ UNCHANGED << user, isDataLoaded, doctors, config, schedule, isGenerating,
                    generation, isSaving, saveStatus, scheduleDirtyRef, saveTimeoutRef,
                    timers, flushLog, flights, db, localSchedule, numEdits, lastEdit,
                    numGen, lastGenerated, doctorStore, numOps, alerts >>

\* App.tsx 179-181, setSchedule(newMonthSchedule) and what follows, and the
\* auto-save effect of the render it causes
installSchedule(f, newSched) ==
    /\ LET eff == AutoSaveEffect(newSched, isDataLoaded, FALSE, "saved")
       IN /\ schedule' = newSched
          /\ scheduleDirtyRef' = FALSE
          /\ saveStatus' = eff.status
          /\ timers' = eff.timers
          /\ saveTimeoutRef' = eff.ref
    /\ fetches' = fetches \ {f}
    /\ UNCHANGED << user, isDataLoaded, doctors, config, isGenerating, generation,
                    isSaving, flushLog, flights, db, localSchedule, numEdits, lastEdit,
                    numGen, lastGenerated, doctorStore, numOps, alerts >>

\* App.tsx 138-181 with dbSchedule = data
applySync(f, data) == installSchedule(f, newMonthSchedule(f.cfg, data))

\* the server's answer arrives
syncScheduleWithDb(f) ==
    /\ f.active /\ f.got
    /\ applySync(f, f.data)

\* dataService.ts 90-94: the API is unavailable, localStorage answers
syncFromLocalStorage(f) ==
    /\ f.active /\ ~f.got
    /\ applySync(f, IF localSchedule = <<>> THEN <<>> ELSE localSchedule[1])

(***************************************************************************)
(* Specification                                                           *)
(***************************************************************************)
Next ==
    \/ \E role \in Roles : handleLogin(role)
    \/ \E cfg \in StoredConfigs \cup {NoConfig}, reached \in BOOLEAN :
           loadData(getDoctors(reached), cfg)
    \/ EditCell
    \/ handleGenerate
    \/ generateDone
    \/ generateFail
    \/ timerFires
    \/ \E dir \in {"prev", "next"} : cycleMonth(dir)
    \/ \E i \in DOMAIN flights : postSchedules(i)
    \/ \E i \in DOMAIN flights, outcome \in {"ok", "error", "offline", "throws"} :
           saveScheduleReturns(i, outcome)
    \/ \E m \in SelectMonths : selectMonth(m)
    \/ \E y \in SelectYears : selectYear(y)
    \/ \E date \in HolidayDates : saveHoliday(date)
    \/ \E date \in HolidayDates : deleteHoliday(date)
    \/ \E id \in ToggleDoctorIds : toggleActiveStatus(id)
    \/ \E id \in ToggleDoctorIds, d \in LeaveDayNumbers : toggleUnavailableDate(id, d)
    \/ \E i \in DOMAIN doctorPosts, outcome \in {"ok", "error", "offline"} :
           saveDoctors(i, outcome)
    \/ \E f \in fetches : getScheduleRead(f)
    \/ \E f \in fetches : syncStale(f)
    \/ \E f \in fetches : syncScheduleWithDb(f)
    \/ \E f \in fetches : syncFromLocalStorage(f)

Spec == Init /\ [][Next]_vars

(***************************************************************************)
(* The edit cascade on its own: updateSchedule called by an admin on a     *)
(* one-day roster of any shape, with any arguments                         *)
(***************************************************************************)
ShapeValues == {Null, "d2"}          \* occupants of the slots before the edit
ShapePairs == {Pair(i, g) : i \in ShapeValues, g \in ShapeValues}
ShapeDate == DateStr(2025, 0, 4)
EditValues == {NoDoctor, "d1", "d2"} \* the physician id written
\* the day after, with a fixed shape, and a date the roster does not hold
NextDate == DateStr(2025, 0, 5)
NextDay == Day(NextDate, TRUE, "undefined", DayShifts(<<Pair("d2", Null)>>, Pair(Null, "d2"), Pair(Null, "d2")))
AbsentDate == DateStr(2025, 1, 1)
\* the cells written: every cell of the first day, two of the next day, and
\* one of the absent date
EditCalls ==
    ({ShapeDate} \X Shifts \X Wards)
        \cup {<<NextDate, "morning", "general">>, <<NextDate, "afternoon", "icu">>,
              <<AbsentDate, "afternoon", "general">>}

\* the day may hold a Morning pair or not whatever its isHoliday flag says:
\* the sync effect recomputes the flag and keeps the stored shifts (App.tsx 152-158)
InitEdit ==
    /\ user = "admin"
    /\ isDataLoaded = TRUE
    /\ doctors = StoredDoctors
    /\ config = Config(2025, 0, {})
    /\ \E hol \in BOOLEAN, m \in {NoMorning} \cup {<<q>> : q \in ShapePairs},
          a \in ShapePairs, n \in ShapePairs :
           schedule = << Day(ShapeDate, hol, "undefined", DayShifts(m, a, n)), NextDay >>
    /\ isGenerating = FALSE
    /\ generation = <<>>
    /\ isSaving = FALSE
    /\ saveStatus = "saved"
    /\ scheduleDirtyRef = FALSE
    /\ saveTimeoutRef = 0
    /\ timers = {}
    /\ flushLog = <<>>
    /\ flights = <<>>
    /\ fetches = {}
    /\ db = <<>>
    /\ localSchedule = <<>>
    /\ numEdits = 0
    /\ numOps = 0
    /\ lastEdit = NoEdit
    /\ numGen = 0
    /\ alerts = <<>>
    /\ lastGenerated = <<>>
    /\ doctorsDb = StoredDoctors
    /\ localDoctors = <<>>
    /\ doctorPosts = <<>>

NextEdit ==
    \E call \in EditCalls, doctorId \in EditValues :
        updateSchedule(call[1], call[2], call[3], doctorId)

SpecEdit == InitEdit /\ [][NextEdit]_vars

(***************************************************************************)
(* The auto-save on its own: an admin edits the roster of the month shown  *)
(* and neither navigates nor changes the configuration.  A timer that is   *)
(* set fires, and a request that was sent is delivered and answered.       *)
(***************************************************************************)
\* the state after login, loadData and the first synchronization over an empty store
InitRetry ==
    /\ user = "admin"
    /\ isDataLoaded = TRUE
    /\ doctors = StoredDoctors
    /\ config = InitialConfig
    /\ schedule = newMonthSchedule(InitialConfig, <<>>)
    /\ isGenerating = FALSE
    /\ generation = <<>>
    /\ isSaving = FALSE
    /\ saveStatus = "saved"
    /\ scheduleDirtyRef = FALSE
    /\ saveTimeoutRef = 0
    /\ timers = {}
    /\ flushLog = <<>>
    /\ flights = <<>>
    /\ fetches = {}
    /\ db = <<>>
    /\ localSchedule = <<>>
    /\ numEdits = 0
    /\ numOps = 0
    /\ lastEdit = NoEdit
    /\ numGen = 0
    /\ alerts = <<>>
    /\ lastGenerated = <<>>
    /\ doctorsDb = StoredDoctors
    /\ localDoctors = <<>>
    /\ doctorPosts = <<>>

postSomeSchedules == \E i \in DOMAIN flights : postSchedules(i)

someSaveScheduleReturns ==
    \E i \in DOMAIN flights, outcome \in {"ok", "error", "offline", "throws"} :
        saveScheduleReturns(i, outcome)

NextRetry ==
    \/ EditCell
    \/ timerFires
    \/ postSomeSchedules
    \/ someSaveScheduleReturns

SpecRetry ==
    /\ InitRetry /\ [][NextRetry]_vars
    /\ WF_vars(timerFires) /\ WF_vars(postSomeSchedules) /\ WF_vars(someSaveScheduleReturns)

(***************************************************************************)
(* The synchronization on its own: syncScheduleWithDb run once, for whole  *)
(* months, on what the store may answer                                    *)
(***************************************************************************)
SyncYears == {2023, 2024}
SyncMonths == 0..11
SyncHolidayDay == 3               \* the day of the month declared a holiday, or not

StoredShifts == DayShifts(NoMorning, Pair("d1", "d2"), Pair("d1", "d2"))
StoredHolidayShifts == DayShifts(<<Pair("d2", "d1")>>, Pair("d1", "d2"), Pair("d1", "d2"))

\* answers of getSchedule: nothing; records of another month only; two
\* records with the same date; records of the month, as the server returns
\* them and as localStorage holds them, among records of another month
SyncAnswers(cfg) ==
    LET inMonth(d) == DateStr(cfg.year, cfg.month, d)
        elsewhere == DateStr(cfg.year - 1, cfg.month, 1)
        last == getDaysInMonth(cfg.year, cfg.month)
    IN { <<>>,
         << Day(ServerDateOut(elsewhere), FALSE, Null, StoredShifts) >>,
         << Day(ServerDateOut(inMonth(1)), FALSE, Null, StoredShifts),
            Day(ServerDateOut(inMonth(1)), TRUE, Null, StoredHolidayShifts) >>,
         << Day(ServerDateOut(elsewhere), TRUE, Null, StoredHolidayShifts),
            Day(inMonth(SyncHolidayDay), FALSE, Null, StoredShifts),
            Day(ServerDateOut(inMonth(last)), TRUE, Null, StoredHolidayShifts) >> }

InitSync ==
    /\ user = "admin"
    /\ isDataLoaded = TRUE
    /\ doctors = StoredDoctors
    /\ \E y \in SyncYears, m \in SyncMonths :
          \E hs \in {{}, {DateStr(y, m, SyncHolidayDay)}} :
              /\ config = Config(y, m, hs)
              /\ \E data \in SyncAnswers(Config(y, m, hs)) :
                    fetches = {[cfg |-> Config(y, m, hs), active |-> TRUE, got |-> TRUE,
                                data |-> data, edits |-> 0]}
    /\ schedule = <<>>
    /\ isGenerating = FALSE
    /\ generation = <<>>
    /\ isSaving = FALSE
    /\ saveStatus = "saved"
    /\ scheduleDirtyRef = FALSE
    /\ saveTimeoutRef = 0
    /\ timers = {}
    /\ flushLog = <<>>
    /\ flights = <<>>
    /\ db = <<>>
    /\ localSchedule = <<>>
    /\ numEdits = 0
    /\ numOps = 0
    /\ lastEdit = NoEdit
    /\ numGen = 0
    /\ alerts = <<>>
    /\ lastGenerated = <<>>
    /\ doctorsDb = StoredDoctors
    /\ localDoctors = <<>>
    /\ doctorPosts = <<>>

\* App.tsx 138-181 for every day of the month
syncWholeMonth(f) ==
    /\ f.active /\ f.got
    /\ installSchedule(f, monthSchedule(f.cfg, f.data, getDaysInMonth(f.cfg.year, f.cfg.month)))

NextSync == \E f \in fetches : syncWholeMonth(f)

SpecSync == InitSync /\ [][NextSync]_vars

(***************************************************************************)
(* Properties                                                              *)
(***************************************************************************)
\* the flush log entry of the i-th call in flight: both are in the order issued
FlushEntry(i) == flushLog[Len(flushLog) - Len(flights) + i]

\* this step is the completion of the i-th call in flight
Completes(i) == Len(flights') = Len(flights) - 1 /\ flights' = RemoveAt(flights, i)

\* the store took the roster of the i-th call: the server committed the POST,
\* or localStorage holds the roster after the step
Accepted(i) == flights[i].committed \/ localSchedule' = <<flights[i].sched>>

\* this step applies a reload: the answer of an active fetch replaces the roster
Reloads == \E f \in fetches : f.active /\ fetches' = fetches \ {f}

\* the day of a roster with the given date
DayOf(sched, date) == sched[CHOOSE i \in DOMAIN sched : sched[i].date = date]

\* the roster holds the last edit applied
HoldsLastEdit(sched) ==
    /\ \E i \in DOMAIN sched : sched[i].date = lastEdit.date
    /\ Slot(DayOf(sched, lastEdit.date), lastEdit.shift, lastEdit.type) = lastEdit.doctorId

\* this step applies an edit
Edits == numEdits' = numEdits + 1

\* this step applies an edit to a day the roster holds
EditsDay == Edits /\ \E i \in DOMAIN schedule : schedule[i].date = lastEdit'.date

\* C1: when a flush completes that was issued before the latest edit, the
\* dirty flag it finds set is still set afterwards
C1_FlushBeforeEditKeepsDirty ==
    [][\A i \in DOMAIN flights :
          (Completes(i) /\ FlushEntry(i).edits < numEdits /\ scheduleDirtyRef)
              => scheduleDirtyRef']_vars

\* C2: at most one saveScheduleToDb call is in flight at any time
C2_OneFlushInFlight == Len(flights) <= 1

\* C3: once a roster is shown, every reload follows a change of year, month or
\* custom holidays; none replaces a roster whose dirty flag is set
C3_NoReloadWhileDirty == [][(Reloads /\ schedule # <<>>) => ~scheduleDirtyRef]_vars

\* C4: when the flush issued by cycleMonth completes without the store having
\* taken the roster, year and month are unchanged and the roster stays dirty
C4_NavigationNeedsAcceptedFlush ==
    [][\A i \in DOMAIN flights :
          (Completes(i) /\ flights[i].origin = "cycle" /\ ~Accepted(i))
              => /\ config' = config
                 /\ scheduleDirtyRef => scheduleDirtyRef']_vars

\* C5: when a flush completes without the store having taken the roster, the
\* status becomes 'error' and the dirty flag stays set
C5_FailedFlushKeepsDirty ==
    [][\A i \in DOMAIN flights :
          (Completes(i) /\ ~Accepted(i))
              => /\ saveStatus' = "error"
                 /\ scheduleDirtyRef => scheduleDirtyRef']_vars

\* C6: after one edit whose first flush is the forced flush of cycleMonth, no
\* timer is pending and none has issued a flush (every flush issued is a forced
\* one), and the roster each call in flight writes holds the edit
C6_ForcedFlushIsTheOnlyFlush ==
    (numEdits = 1 /\ numGen = 0 /\ flushLog # <<>> /\ flushLog[1].origin = "cycle")
        => /\ timers = {}
           /\ \A k \in DOMAIN flushLog : flushLog[k].origin = "cycle"
           /\ \A i \in DOMAIN flights : HoldsLastEdit(flights[i].sched)

C6_Witness ==
    /\ numEdits = 1 /\ numGen = 0
    /\ Len(flushLog) = 1 /\ flushLog[1].origin = "cycle"
    /\ flights # <<>> /\ HoldsLastEdit(flights[1].sched)
    /\ lastEdit.doctorId = "d1"

\* C7: at most one timer is pending, and it writes the roster as it is now;
\* when the first flush is the timer's and was issued after every edit made,
\* it is the only flush and the roster it writes is the edited one
C7_BurstIsOneFlush ==
    /\ Cardinality(timers) <= 1
    /\ \A t \in timers : t.sched = schedule
    /\ (numGen = 0 /\ flushLog # <<>> /\ flushLog[1].edits = numEdits
          /\ \A k \in DOMAIN flushLog : flushLog[k].origin = "timer")
          => /\ Len(flushLog) = 1
             /\ \A i \in DOMAIN flights : scheduleDirtyRef => flights[i].sched = schedule

C7_Witness ==
    /\ numEdits >= 2 /\ numGen = 0
    /\ Len(flushLog) = 1 /\ flushLog[1].origin = "timer" /\ flushLog[1].edits = numEdits
    /\ flights # <<>> /\ flights[1].sched = schedule /\ HoldsLastEdit(schedule)

\* C8: every step that applies an edit or merges a generated roster ends with
\* the dirty flag set and the status 'unsaved'
C8_EditAndGenerationMarkDirty ==
    [][(Edits \/ numGen' = numGen + 1)
          => (scheduleDirtyRef' /\ saveStatus' = "unsaved")]_vars

\* an edit was applied while a flush was in flight
C8_Witness ==
    /\ isSaving /\ flights # <<>>
    /\ numEdits >= 1 /\ FlushEntry(1).edits < numEdits
    /\ scheduleDirtyRef /\ saveStatus = "unsaved"

C10_AfternoonWriteContinues ==
    [][(EditsDay /\ lastEdit'.shift = "afternoon")
          => LET old == DayOf(schedule, lastEdit'.date).shifts
                 new == DayOf(schedule', lastEdit'.date).shifts
                 w == lastEdit'.type
                 other == OtherWard(lastEdit'.type)
             IN /\ new.afternoon[w] = lastEdit'.doctorId
                /\ new.night[w] = lastEdit'.doctorId
                /\ new.afternoon[other] = old.afternoon[other]
                /\ new.night[other] = old.night[other]
                /\ new.morning = old.morning]_vars

\* Afternoon/General was written on a day with a Morning pair, the other
\* ward's slots holding someone else
C10_Witness ==
    /\ lastEdit.shift = "afternoon" /\ lastEdit.type = "general" /\ lastEdit.doctorId = "d1"
    /\ schedule # <<>> /\ schedule[1].date = lastEdit.date
    /\ schedule[1].shifts.afternoon = Pair("d2", "d1")
    /\ schedule[1].shifts.night = Pair("d2", "d1")
    /\ schedule[1].shifts.morning = <<Pair("d2", "d2")>>

\* Afternoon and Night of every ward of every day hold the same occupant
Continuity(sched) ==
    \A i \in DOMAIN sched, w \in Wards :
        sched[i].shifts.afternoon[w] = sched[i].shifts.night[w]

\* C11: a roster that started all-empty and was changed by edits only (no
\* generation) has, for every day and ward, Afternoon occupant = Night occupant
C11_EditsKeepContinuity == numGen = 0 => Continuity(schedule)

\* C12: an edit of Night/w with physician p changes that slot only: the
\* Afternoon pair and the Morning pair of the day, and Night of the other
\* ward, keep their occupants
C12_NightWriteIsLocal ==
    [][(EditsDay /\ lastEdit'.shift = "night")
          => LET old == DayOf(schedule, lastEdit'.date).shifts
                 new == DayOf(schedule', lastEdit'.date).shifts
             IN /\ new.night[lastEdit'.type] = lastEdit'.doctorId
                /\ new.night[OtherWard(lastEdit'.type)] = old.night[OtherWard(lastEdit'.type)]
                /\ new.afternoon = old.afternoon
                /\ new.morning = old.morning]_vars

\* Night/General was written on a day whose Afternoon/General holds someone else
C12_Witness ==
    /\ lastEdit.shift = "night" /\ lastEdit.type = "general" /\ lastEdit.doctorId = "d1"
    /\ lastEdit.date = ShapeDate /\ numEdits = 1
    /\ schedule[1].shifts.night = Pair("d2", "d1")
    /\ schedule[1].shifts.afternoon = Pair("d2", "d2")
    /\ schedule[1].shifts.morning = <<Pair("d2", "d2")>>

\* C13: an edit for a date leaves every day with another date as it was
\* (slots, holiday flag, holiday name), and the roster keeps its length and
\* the date at every position; no day changes when no day has the date
C13_EditTouchesOneDay ==
    [][Edits
          => /\ Len(schedule') = Len(schedule)
             /\ \A i \in DOMAIN schedule :
                   /\ schedule'[i].date = schedule[i].date
                   /\ schedule'[i].isHoliday = schedule[i].isHoliday
                   /\ schedule'[i].holidayName = schedule[i].holidayName
                   /\ schedule[i].date # lastEdit'.date => schedule'[i] = schedule[i]]_vars

\* the second day was edited and then a date the roster does not hold
C13_Witness ==
    /\ numEdits = 2 /\ lastEdit.date = AbsentDate /\ lastEdit.doctorId = "d1"
    /\ Len(schedule) = 2
    /\ schedule[2] # NextDay /\ schedule[2].date = NextDate

\* the physicians holding a slot of the day
Occupants(day) == {Slot(day, shift, w) : shift \in Shifts, w \in Wards} \cap DoctorIds

\* C14: in a roster changed by hand edits only (no generation), no physician
\* holds a slot of a day whose date is among the physician's unavailable dates
C14_NoUnavailableOccupant ==
    numGen = 0 =>
        \A i \in DOMAIN schedule, j \in DOMAIN doctors :
            SplitT(schedule[i].date) \in doctors[j].unavailableDates
                => doctors[j].id \notin Occupants(schedule[i])

\* C15: in the roster a synchronization installs, a day has a Morning pair
\* exactly when it is flagged as a holiday
C15_MorningPairIffHoliday ==
    [][Reloads
          => \A i \in DOMAIN schedule' :
                HasMorning(schedule'[i]) <=> schedule'[i].isHoliday]_vars

\* the lengths of the months of a common year
MonthLengths == <<31, 28, 31, 30, 31, 30, 31, 31, 30, 31, 30, 31>>
DaysOf(y, m) == IF m = 1 /\ IsLeap(y) THEN 29 ELSE MonthLengths[m + 1]

\* C16: the roster a synchronization installs for (year, month) has one day
\* per calendar day of the month: its length is the number of days of the
\* month and its i-th day is dated the i-th of the month
C16_OneDayPerCalendarDay ==
    [][Reloads
          => /\ Len(schedule') = DaysOf(config.year, config.month)
             /\ \A i \in DOMAIN schedule' :
                   SplitT(schedule'[i].date) = DateStr(config.year, config.month, i)]_vars

\* February 2024 synchronized from an answer that holds two records of its
\* first day
C16_Witness ==
    /\ config.year = 2024 /\ config.month = 1 /\ fetches = {}
    /\ Len(schedule) = 29
    /\ schedule[1].date.long /\ schedule[1].shifts = StoredShifts
    /\ schedule[29].date = DateStr(2024, 1, 29)

\* the day of the week counted from Sunday 1 January 2023 (0 is Sunday)
RECURSIVE DaysBeforeMonth(_, _)
DaysBeforeMonth(y, m) ==
    IF m = 0
    THEN (IF y = 2023 THEN 0 ELSE DaysBeforeMonth(y - 1, 11) + DaysOf(y - 1, 11))
    ELSE DaysBeforeMonth(y, m - 1) + DaysOf(y, m - 1)
Weekday(y, m, d) == (DaysBeforeMonth(y, m) + d - 1) % 7

\* C17: in the roster a synchronization installs, a day is flagged as a
\* holiday exactly when it is a Saturday, a Sunday or a custom holiday of config
C17_HolidayFlagRecomputed ==
    [][Reloads
          => \A i \in DOMAIN schedule' :
                schedule'[i].isHoliday <=>
                    \/ Weekday(config.year, config.month, i) \in {0, 6}
                    \/ DateStr(config.year, config.month, i) \in config.customHolidays]_vars

\* January 2024 with Wednesday the 3rd declared a holiday: the 3rd was stored
\* as a weekday and Wednesday the 31st as a holiday
C17_Witness ==
    /\ config = Config(2024, 0, {DateStr(2024, 0, 3)}) /\ fetches = {}
    /\ Len(schedule) = 31
    /\ schedule[3].isHoliday /\ schedule[3].shifts = StoredShifts
    /\ ~schedule[31].isHoliday /\ schedule[31].shifts = StoredHolidayShifts

\* the stored rows of the calendar day of a date
RowsOf(date) == {k \in DOMAIN db : db[k].key = SplitT(date)}

\* this step re-synchronizes the roster shown, from the server's answer, after
\* a change of the custom holidays: same month, and config flags some day
\* differently than the roster
ReloadsForHolidays ==
    /\ \E f \in fetches : f.active /\ f.got /\ fetches' = fetches \ {f}
    /\ schedule # <<>>
    /\ SplitT(schedule[1].date) = DateStr(config.year, config.month, 1)
    /\ \E i \in DOMAIN schedule :
          schedule[i].isHoliday # (DateStr(config.year, config.month, i) \in config.customHolidays
                                     \/ Weekday(config.year, config.month, i) \in {0, 6})

\* C18: a re-synchronization after a change of the custom holidays leaves the
\* store as it is, and every day that has a stored row shows the occupants of
\* the row, or at least the occupants it showed before
C18_HolidayChangeKeepsOccupants ==
    [][ReloadsForHolidays
          => /\ db' = db
             /\ \A i \in DOMAIN schedule : \A k \in RowsOf(schedule[i].date) :
                   \/ schedule'[i].shifts = db[k].shifts
                   \/ schedule'[i].shifts = schedule[i].shifts]_vars

\* I1: no physician occupies both wards of one shift
I1(day) ==
    /\ \A shift \in {"afternoon", "night"} :
          day.shifts[shift].icu \in DoctorIds
              => day.shifts[shift].icu # day.shifts[shift].general
    /\ \A k \in DOMAIN day.shifts.morning :
          day.shifts.morning[k].icu \in DoctorIds
              => day.shifts.morning[k].icu # day.shifts.morning[k].general

\* I2: within a ward the Afternoon occupant is the Night occupant
I2(day) == \A w \in Wards : day.shifts.afternoon[w] = day.shifts.night[w]

\* I3: a holiday carries the cross-ward pattern with two distinct physicians
I3(day) ==
    day.isHoliday =>
        /\ day.shifts.morning # NoMorning
        /\ day.shifts.morning[1].general \in DoctorIds
        /\ day.shifts.morning[1].icu \in DoctorIds
        /\ day.shifts.morning[1].general # day.shifts.morning[1].icu
        /\ day.shifts.afternoon.icu = day.shifts.morning[1].general
        /\ day.shifts.night.icu = day.shifts.morning[1].general
        /\ day.shifts.afternoon.general = day.shifts.morning[1].icu
        /\ day.shifts.night.general = day.shifts.morning[1].icu

\* I4: no occupant is inactive, or unavailable on the calendar day
I4(day, docs) ==
    \A j \in DOMAIN docs :
        docs[j].id \in Occupants(day)
            => docs[j].active /\ SplitT(day.date) \notin docs[j].unavailableDates

\* I5: a day that is not a holiday has no Morning slots
I5(day) == ~day.isHoliday => day.shifts.morning = NoMorning

\* the generator answers while the roster shown is the synchronized roster of
\* the month, and the physicians and the configuration are those it was
\* called with
GeneratesUndisturbed ==
    /\ numGen' = numGen + 1
    /\ schedule # <<>> /\ fetches = {}
    /\ generation[1].config = config /\ generation[1].doctors = doctors

\* C19: the roster installed by a successful generation satisfies I1-I5 on
\* every day, for the physicians the generation was run with (at least two of
\* them active and free on every day of the month)
C19_GeneratedRosterIsValid ==
    [][GeneratesUndisturbed
          => \A i \in DOMAIN schedule' :
                /\ I1(schedule'[i]) /\ I2(schedule'[i]) /\ I3(schedule'[i])
                /\ I4(schedule'[i], generation[1].doctors) /\ I5(schedule'[i])]_vars

\* this step is a press of the generate button: it shows the insufficient-staff
\* alert or calls the generator
PressesGenerate ==
    \/ alerts' = Append(alerts, InsufficientStaff)
    \/ generation = <<>> /\ generation' # <<>>

\* C20: a press of the generate button with fewer than two active physicians
\* only shows the insufficient-staff alert: the generator is not called, and
\* the roster, the dirty flag and the save status stay as they are
C20_TooFewActiveFailsAtOnce ==
    [][(PressesGenerate /\ Cardinality(activeIds(doctors)) < 2)
          => /\ alerts' = Append(alerts, InsufficientStaff)
             /\ generation' = <<>> /\ isGenerating' = isGenerating
             /\ schedule' = schedule
             /\ scheduleDirtyRef' = scheduleDirtyRef
             /\ saveStatus' = saveStatus
             /\ timers' = timers /\ flights' = flights]_vars

\* the button was pressed with one active physician and the roster is shown
C20_Witness ==
    /\ alerts # <<>> /\ alerts[Len(alerts)] = InsufficientStaff
    /\ Cardinality(activeIds(doctors)) < 2
    /\ schedule # <<>> /\ ~isGenerating /\ generation = <<>>

\* C21: the step in which a generation fails shows the error and resets the
\* generating indicator, and leaves the roster, the dirty flag, the save status
\* and the pending timers as they were; nothing of a generated roster is merged
C21_FailedGenerationIsAtomic ==
    [][(generation # <<>> /\ generation' = <<>> /\ numGen' = numGen)
          => /\ alerts' = Append(alerts, GenerationError)
             /\ ~isGenerating'
             /\ schedule' = schedule
             /\ scheduleDirtyRef' = scheduleDirtyRef
             /\ saveStatus' = saveStatus
             /\ timers' = timers /\ flights' = flights /\ db' = db]_vars

\* a generation has failed over a roster that holds an unsaved hand edit
C21_Witness ==
    /\ alerts # <<>> /\ alerts[Len(alerts)] = GenerationError
    /\ ~isGenerating /\ generation = <<>> /\ numGen = 0
    /\ numEdits = 1 /\ scheduleDirtyRef /\ HoldsLastEdit(schedule)

\* C22: a generation called with the doctors and the config of the generation
\* merged before it answers with the same roster
C22_GenerationIsReproducible ==
    [][(numGen' = numGen + 1 /\ lastGenerated # <<>>
          /\ lastGenerated'[1].call = lastGenerated[1].call)
          => lastGenerated'[1].answer = lastGenerated[1].answer]_vars

\* the rows of a table
RowSet(rows) == {rows[k] : k \in DOMAIN rows}

\* the calendar days of a payload
PayloadKeys(sched) == {SplitT(sched[j].date) : j \in DOMAIN sched}

\* the row holds what the payload's day holds
StoresDay(row, day) ==
    /\ row.key = SplitT(day.date)
    /\ row.isHoliday = day.isHoliday
    /\ row.shifts = day.shifts
    /\ \/ row.holidayName = day.holidayName
       \/ day.holidayName = "undefined" /\ row.holidayName = Null

\* this step commits the POST of flight i
Commits(i) ==
    /\ Len(flights') = Len(flights)
    /\ ~flights[i].committed /\ flights'[i].committed

\* C23: a committed POST /api/schedules leaves exactly one row for every day of
\* the payload, holding the payload's day, and leaves the rows of every other
\* date as they were
C23_SaveUpsertsByDate ==
    [][\A i \in DOMAIN flights : Commits(i) =>
          LET sched == flights[i].sched
          IN /\ \A j \in DOMAIN sched :
                   /\ Cardinality({k \in DOMAIN db' : db'[k].key = SplitT(sched[j].date)}) = 1
                   /\ \E k \in DOMAIN db' : StoresDay(db'[k], sched[j])
             /\ {r \in RowSet(db) : r.key \notin PayloadKeys(sched)}
                   = {r \in RowSet(db') : r.key \notin PayloadKeys(sched)}]_vars

\* the POST of a month was committed over a table that holds the rows of
\* another month
C23_Witness ==
    \E i \in DOMAIN flights :
        /\ flights[i].committed /\ flights[i].sched # <<>>
        /\ \E k \in DOMAIN db : db[k].key.mo # flights[i].sched[1].date.mo
        /\ \E k \in DOMAIN db : StoresDay(db[k], flights[i].sched[1])

\* the roles the edit cascade and the generation are meant for
PrivilegedRoles == {"admin", "editor"}

\* this step is a call of updateSchedule
CallsUpdateSchedule == lastEdit' # lastEdit \/ numEdits' # numEdits

\* C24: in a session of any other role no edit is applied, no generation is
\* started or merged, the dirty flag is never set, a call of updateSchedule
\* changes neither the roster nor the flag, and the roster changes by reloads only
C24_OnlyPrivilegedRolesWrite ==
    [][user \notin PrivilegedRoles
          => /\ numEdits' = 0 /\ numGen' = 0 /\ generation' = <<>> /\ ~isGenerating'
             /\ ~scheduleDirtyRef'
             /\ CallsUpdateSchedule
                   => schedule' = schedule /\ saveStatus' = saveStatus /\ timers' = timers
             /\ schedule' # schedule => Reloads]_vars

\* a viewer called updateSchedule on the roster shown, and the cell is as before
C24_Witness ==
    /\ user = "viewer" /\ schedule # <<>>
    /\ lastEdit # NoEdit /\ lastEdit.doctorId \in DoctorIds
    /\ ~HoldsLastEdit(schedule)
    /\ numOps = MaxOps

\* this step installs the roster of a fetch during which an edit was applied
\* to a day of the month fetched, the roster still holding the edit
ReloadsOverEdit ==
    \E f \in fetches :
        /\ f.active /\ fetches' = fetches \ {f}
        /\ numEdits > f.edits
        /\ lastEdit.date.y = f.cfg.year /\ lastEdit.date.mo = f.cfg.month + 1
        /\ HoldsLastEdit(schedule)

\* C25: when a reload completes after an edit applied during its fetch, the
\* roster still holds the edit or is still marked dirty
C25_EditDuringReloadSurvives ==
    [][ReloadsOverEdit => (HoldsLastEdit(schedule') \/ scheduleDirtyRef')]_vars

\* the physician shown or stored in a slot, NoDoctor when the slot is empty or absent
OccupantOf(shifts, shift, w) ==
    IF shift = "morning"
    THEN IF shifts.morning = NoMorning \/ shifts.morning[1][w] \notin DoctorIds
         THEN NoDoctor ELSE shifts.morning[1][w]
    ELSE IF shifts[shift][w] \in DoctorIds THEN shifts[shift][w] ELSE NoDoctor

\* the physician persisted for a slot of a date, NoDoctor when the date has no row
StoredOccupant(date, shift, w) ==
    IF RowsOf(date) = {} THEN NoDoctor
    ELSE OccupantOf(db[CHOOSE k \in RowsOf(date) : TRUE].shifts, shift, w)

\* the synchronizer is Clean and at rest
CleanAtRest ==
    /\ ~scheduleDirtyRef /\ saveStatus = "saved"
    /\ ~isSaving /\ flights = <<>> /\ timers = {}

\* C26: whenever the synchronizer is Clean with no flush in flight and no
\* timer pending, every slot of the roster shown has the occupant persisted
\* for its date and slot
C26_CleanRosterIsStored ==
    CleanAtRest =>
        \A i \in DOMAIN schedule, shift \in Shifts, w \in Wards :
            OccupantOf(schedule[i].shifts, shift, w) = StoredOccupant(schedule[i].date, shift, w)

\* the ids of a list of doctors
IdsOf(docs) == {docs[i].id : i \in DOMAIN docs}

\* C27: every physician that was persisted at the start is still persisted,
\* also after a failed initial load (no operation of the model removes a
\* physician from the list)
C27_FailedLoadKeepsDoctors == IdsOf(StoredDoctors) \subseteq IdsOf(doctorsDb)

\* C28: once the user has stopped, a dirty roster is eventually clean and
\* shown as saved, whatever became of the flushes before
C28_DirtyRosterIsEventuallyClean ==
    (scheduleDirtyRef /\ numOps = MaxOps) ~> (~scheduleDirtyRef /\ saveStatus = "saved")

\* this step ends the fetch f
Ends(f) == fetches' = fetches \ {f}

\* C29: at most one fetch can still be applied, and a step that ends a fetch
\* either applies the fetch of the current config or leaves the roster, the
\* dirty flag and the save status as they are
C29_SupersededFetchIsDropped ==
    [][/\ Cardinality({f \in fetches' : f.active}) <= 1
       /\ \A f \in fetches : Ends(f) =>
             \/ f.active /\ f.cfg = config
             \/ /\ schedule' = schedule
                /\ scheduleDirtyRef' = scheduleDirtyRef
                /\ saveStatus' = saveStatus /\ timers' = timers]_vars

\* the answer for a superseded month is still awaited after the roster of the
\* current month was installed and edited
C29_Witness ==
    /\ \E f \in fetches : ~f.active /\ f.cfg.month # config.month
    /\ \A f \in fetches : ~f.active
    /\ schedule # <<>> /\ schedule[1].date.mo = config.month + 1
    /\ scheduleDirtyRef /\ HoldsLastEdit(schedule)

====
